---- MODULE Spec2Model ----
(***************************************************************************)
(* TabWorker of the web-scrobbler background script                        *)
(* (src/src/core/background/object/tab-worker.js).                         *)
(*                                                                         *)
(* The worker is single threaded: a handler runs until it returns or       *)
(* reaches an `await`.  Every action below is one such run.  A handler     *)
(* parked at `await getCurrentTab()` is `ready = FALSE`; handlers parked   *)
(* at `await Options.isConnectorEnabled(connector)` are in `tasks`.  Any   *)
(* number of handlers may be parked at `await Inject.injectConnector`:     *)
(* they hold no worker state and resume, with the result of the injection, *)
(* whenever the browser lets them, so that stage is kept stateless.        *)
(* ctrl.toggleLove is a call on the controller alone and is recorded with  *)
(* the refresh that follows it.                                            *)
(*                                                                         *)
(* Handlers are written as operators on a record `s` of the worker's       *)
(* fields; s.err is set when a statement throws, and the rest of the       *)
(* handler is then skipped.                                                *)
(***************************************************************************)
EXTENDS Integers, Sequences, FiniteSets, Bags, TLC

\* ------------------------------------------------------------------ bounds
MaxTab == 2
MaxCtrl == 2
MaxTasks == 2

\* --------------------------------------------------------------- constants
NO_TAB == -1
UNDEF == -2
NoCtrl == 0
NoConn == "none"

Tabs == 1..MaxTab
Ctrls == 1..MaxCtrl
Connectors == {"X", "Y"}
\* The connectors the pages shown in a tab resolve to
ConnectorsOf(tabId) == IF tabId = 1 THEN {"X"} ELSE Connectors

Commands == {"toggle-connector", "love-song", "unlove-song"}

\* The message types processMessage and processPortMessage switch on, and
\* one type that neither of them knows
MessageTypes == {"REQUEST_ACTIVE_TABID", "REQUEST_GET_SONG",
                 "REQUEST_CORRECT_SONG", "REQUEST_TOGGLE_LOVE",
                 "REQUEST_SKIP_SONG", "REQUEST_RESET_SONG", "OTHER"}
PortMessageTypes == {"EVENT_STATE_CHANGED", "OTHER"}

INJECTED == "INJECTED"
MATCHED == "MATCHED"
NO_MATCH == "NO_MATCH"

\* The orders in which `for (const tabId in this.tabControllers)` may visit
\* the keys of the map.
Orders == {o \in [1..MaxTab -> Tabs] : \A i, j \in 1..MaxTab : o[i] = o[j] => i = j}

VARIABLES
    ready,          \* initialize() has resumed from `await getCurrentTab()`
    currentTabId,   \* this.currentTabId
    activeTabId,    \* this.activeTabId
    tabControllers, \* this.tabControllers: tab -> controller (NoCtrl: no entry)
    controllers,    \* the Controller objects constructed so far
    nextCtrl,       \* identity of the next Controller to be constructed
    menu,           \* items of the browser action context menu
    tasks,          \* handlers parked at `await Options.isConnectorEnabled`
    closedTabs,     \* tabs the browser has removed
    last            \* what the handler run of the last step did

\* The YouTube connector (src/unnamed/part_000), a content script of its own
VARIABLES
    allowedCategories, \* the array allowedCategories, as the set of its items
    optionsRead,       \* how many awaits of readConnectorOptions() resumed
    categoryCache,     \* the Map categoryCache (ABSENT: no key)
    fetching,          \* video id -> pending promises of fetchCategoryId()
    started,           \* video id -> fetches ever started for it
    ytLast             \* the last call of Connector.isScrobblingAllowed

ytVars == <<allowedCategories, optionsRead, categoryCache, fetching, started,
            ytLast>>

workerVars == <<ready, currentTabId, activeTabId, tabControllers, controllers,
                nextCtrl, menu, tasks, closedTabs, last>>

vars == <<ready, currentTabId, activeTabId, tabControllers, controllers,
          nextCtrl, menu, tasks, closedTabs, last, allowedCategories,
          optionsRead, categoryCache, fetching, started, ytLast>>

\* ------------------------------------------------------------ controllers
Unborn == [tabId |-> NO_TAB, conn |-> NoConn, isEnabled |-> FALSE,
           mode |-> "inactive", st |-> "unborn"]

\* new Controller(tabId, connector, isEnabled)
NewController(tabId, connector, isEnabled) ==
    [tabId |-> tabId, conn |-> connector, isEnabled |-> isEnabled,
     mode |-> "inactive", st |-> "live"]

\* A controller after finish(): the worker holds no reference through which it
\* reads the fields again, so they are not kept.
Finished == [tabId |-> NO_TAB, conn |-> NoConn, isEnabled |-> FALSE,
             mode |-> "inactive", st |-> "finished"]

isActiveMode(mode) == mode = "active"
isInactiveMode(mode) == mode = "inactive"

\* What one handler run did to the collaborators that keep no state here:
\* ba is the last call on this.browserAction (Untouched: none, NoCtrl: reset(),
\* a controller: update(ctrl)); sent is the tab EVENT_READY went to and sentOk
\* whether that tab had its entry in the map then.
Untouched == -1
\* stored is the call Options.setConnectorEnabled(conn, flag), if one was made
NoStore == [conn |-> NoConn, flag |-> FALSE]
\* love is the call ctrl.toggleLove(isLoved) and songLoved the call
\* browserAction.setSongLoved(isLoved, ctrl.getCurrentSong()), if made
NoLove == [ctrl |-> NoCtrl, isLoved |-> FALSE]

\* ret is what processMessage resolves to and call the method of the
\* controller a message was routed to
NoRet == [k |-> "undefined", tab |-> NO_TAB, ctrl |-> NoCtrl, flag |-> FALSE]
NoCall == [ctrl |-> NoCtrl, method |-> "none"]

NoEffect == [op |-> "none", tab |-> NO_TAB, ctrl |-> NoCtrl, flag |-> FALSE,
             err |-> FALSE, rej |-> FALSE, sent |-> NO_TAB, sentOk |-> FALSE,
             ba |-> Untouched, stored |-> NoStore, preActive |-> UNDEF]

\* --------------------------------------------------- the worker as a record
Pack == [ready |-> ready, current |-> currentTabId, active |-> activeTabId,
         tc |-> tabControllers, ctl |-> controllers, next |-> nextCtrl,
         menu |-> menu, ba |-> Untouched, stored |-> NoStore,
         err |-> FALSE, rej |-> FALSE, sent |-> NO_TAB, sentOk |-> FALSE,
         love |-> NoLove, songLoved |-> NoLove, ret |-> NoRet,
         call |-> NoCall]

Unpack(s) ==
    /\ ready' = s.ready
    /\ currentTabId' = s.current
    /\ activeTabId' = s.active
    /\ tabControllers' = s.tc
    /\ controllers' = s.ctl
    /\ nextCtrl' = s.next
    /\ menu' = s.menu
    /\ UNCHANGED ytVars

Effect(s, op, tab, ctrl, flag) ==
    [op |-> op, tab |-> tab, ctrl |-> ctrl, flag |-> flag,
     err |-> s.err, rej |-> s.rej, sent |-> s.sent, sentOk |-> s.sentOk,
     ba |-> s.ba, stored |-> s.stored, preActive |-> activeTabId]

\* A statement throws: the rest of the handler does not run.
Throw(s) == [s EXCEPT !.err = TRUE]

\* this.tabControllers[tabId] (undefined for a key that is not in the map)
Lookup(s, tabId) == IF tabId \in Tabs THEN s.tc[tabId] ELSE NoCtrl

\* ------------------------------------------------------- browser action
updateBrowserAction(s, tabId) ==
    IF ~s.ready THEN Throw(s)
    ELSE [s EXCEPT !.ba = Lookup(s, tabId)]

browserActionReset(s) ==
    IF ~s.ready THEN Throw(s) ELSE [s EXCEPT !.ba = NoCtrl]

\* shouldUpdateBrowserAction without the check of the active controller
shouldUpdateBrowserAction_NotSticky(s, tabId) ==
    LET ctrl == Lookup(s, tabId)
    IN  ~(ctrl # NoCtrl /\ tabId # s.current /\ isInactiveMode(s.ctl[ctrl].mode))

shouldUpdateBrowserAction(s, tabId) ==
    LET activeCtrl == Lookup(s, s.active)
        ctrl == Lookup(s, tabId)
    IN  IF activeCtrl # NoCtrl /\ isActiveMode(s.ctl[activeCtrl].mode)
        THEN FALSE
        ELSE IF /\ ctrl # NoCtrl
                /\ tabId # s.current
                /\ isInactiveMode(s.ctl[ctrl].mode)
             THEN FALSE
             ELSE TRUE

\* ------------------------------------------------------------ election
Min(S) == CHOOSE x \in S : \A y \in S : x <= y

\* findActiveTabId with the scan of the map taken before the look at the
\* current tab
findActiveTabId_ScanFirst(s, order) ==
    LET ctrl == Lookup(s, s.current)
        hits == {i \in 1..MaxTab :
                    /\ s.tc[order[i]] # NoCtrl
                    /\ isActiveMode(s.ctl[s.tc[order[i]]].mode)}
    IN  IF hits # {}
        THEN s.ctl[s.tc[order[Min(hits)]]].tabId
        ELSE IF ctrl # NoCtrl THEN s.current ELSE NO_TAB

\* findActiveTabId with the fallback to the current tab taken before the scan
findActiveTabId_CurrentFirst(s, order) ==
    LET ctrl == Lookup(s, s.current)
        hits == {i \in 1..MaxTab :
                    /\ s.tc[order[i]] # NoCtrl
                    /\ isActiveMode(s.ctl[s.tc[order[i]]].mode)}
    IN  IF ctrl # NoCtrl
        THEN s.current
        ELSE IF hits # {}
             THEN s.ctl[s.tc[order[Min(hits)]]].tabId
             ELSE NO_TAB

findActiveTabId(s, order) ==
    LET ctrl == Lookup(s, s.current)
        hits == {i \in 1..MaxTab :
                    /\ s.tc[order[i]] # NoCtrl
                    /\ isActiveMode(s.ctl[s.tc[order[i]]].mode)}
    IN  IF ctrl # NoCtrl /\ isActiveMode(s.ctl[ctrl].mode)
        THEN s.current
        ELSE IF hits # {}
             THEN s.ctl[s.tc[order[Min(hits)]]].tabId
             ELSE IF ctrl # NoCtrl THEN s.current ELSE NO_TAB

\* ---------------------------------------------------------- context menu
resetContextMenu(s) == [s EXCEPT !.menu = <<>>]

\* An item is its onclick closure: the tab the menu was built for, the
\* controller and (for a toggle) the state the click will set.  The connector
\* of a controller never changes, so the item carries it.
addContextMenuItem(s, tabId, kind, ctrl, newState) ==
    [s EXCEPT !.menu = Append(@, [kind |-> kind, tabId |-> tabId,
                                  ctrl |-> ctrl, conn |-> s.ctl[ctrl].conn,
                                  newState |-> newState])]

\* addToggleConnectorMenu with `newState = ctrl.isEnabled`
addToggleConnectorMenu_SameState(s, tabId, ctrl) ==
    IF ctrl = NoCtrl
    THEN Throw(s)
    ELSE addContextMenuItem(s, tabId, "toggle", ctrl, s.ctl[ctrl].isEnabled)

addToggleConnectorMenu(s, tabId, ctrl) ==
    IF ctrl = NoCtrl
    THEN Throw(s)
    ELSE addContextMenuItem(s, tabId, "toggle", ctrl, ~s.ctl[ctrl].isEnabled)

addDisableUntilTabClosedItem(s, tabId, ctrl) ==
    addContextMenuItem(s, tabId, "disableUntilTabClosed", ctrl, FALSE)

\* updateContextMenu without the comparison of the two connectors
updateContextMenu_NoDedupe(s, tabId) ==
    IF ~s.ready
    THEN Throw(resetContextMenu(s))
    ELSE
    LET s1 == resetContextMenu(s)
        ctrl == Lookup(s, tabId)
        activeCtrl == Lookup(s, s.active)
        s2 == IF ctrl # NoCtrl
              THEN LET a == addToggleConnectorMenu(s1, tabId, ctrl)
                   IN  IF s.ctl[ctrl].isEnabled
                       THEN addDisableUntilTabClosedItem(a, tabId, ctrl)
                       ELSE a
              ELSE s1
    IN  IF s.active # tabId
        THEN addToggleConnectorMenu(s2, tabId, activeCtrl)
        ELSE s2

updateContextMenu(s, tabId) ==
    IF ~s.ready
    THEN Throw(resetContextMenu(s))
    ELSE
    LET s1 == resetContextMenu(s)
        ctrl == Lookup(s, tabId)
        activeCtrl == Lookup(s, s.active)
        s2 == IF ctrl # NoCtrl
              THEN LET a == addToggleConnectorMenu(s1, tabId, ctrl)
                   IN  IF s.ctl[ctrl].isEnabled
                       THEN addDisableUntilTabClosedItem(a, tabId, ctrl)
                       ELSE a
              ELSE s1
    IN  IF s.active # tabId
        THEN IF /\ ctrl # NoCtrl
                /\ activeCtrl # NoCtrl
                /\ s.ctl[activeCtrl].conn = s.ctl[ctrl].conn
             THEN s2
             ELSE addToggleConnectorMenu(s2, tabId, activeCtrl)
        ELSE s2

updateLastActiveTab(s, order) ==
    LET lastActiveTabId == findActiveTabId(s, order)
    IN  IF lastActiveTabId # NO_TAB
        THEN LET s1 == [s EXCEPT !.active = lastActiveTabId]
                 s2 == updateBrowserAction(s1, s1.active)
             IN  updateContextMenu(s2, s2.active)
        ELSE resetContextMenu(browserActionReset(s))

\* ------------------------------------------------------------ controllers
\* ctrl.setEnabled(flag)
setEnabled(s, ctrl, flag) ==
    IF s.ctl[ctrl].st = "live"
    THEN [s EXCEPT !.ctl[ctrl].isEnabled = flag]
    ELSE s

\* connector is ctrl.getConnector()
setConnectorState(s, ctrl, connector, isEnabled) ==
    LET s1 == setEnabled(s, ctrl, isEnabled)
    IN  [s1 EXCEPT !.stored = [conn |-> connector, flag |-> isEnabled]]

\* async unloadController: a throw inside it rejects the promise it returns,
\* which no caller awaits; the caller goes on.
unloadController(s, tabId) ==
    IF ~s.ready
    THEN [s EXCEPT !.rej = TRUE]
    ELSE LET controller == Lookup(s, tabId)
         IN  IF controller = NoCtrl
             THEN s
             ELSE [s EXCEPT !.ctl[controller] = Finished,
                            !.tc[tabId] = NoCtrl]

\* createController, from the point where Options.isConnectorEnabled resolves
\* to isEnabled.  The store belongs to the Options module, which the options
\* page writes as well: what it holds is an input here, and what the worker
\* writes to it (setConnectorEnabled) is recorded as an effect.
createController(s, tabId, connector, isEnabled) ==
    LET ctrl == s.next
        s1 == [s EXCEPT !.ctl[ctrl] = NewController(tabId, connector, isEnabled),
                        !.next = ctrl + 1]
    IN  IF ~s.ready THEN Throw(s1) ELSE [s1 EXCEPT !.tc[tabId] = ctrl]

\* tabs.sendMessage(tabId, { type: 'EVENT_READY' })
sendReady(s, tabId) ==
    [s EXCEPT !.sent = tabId, !.sentOk = Lookup(s, tabId) # NoCtrl]

\* --------------------------------------------------------------- handlers
\* processControlleModeChange that leaves an active tab whose controller is
\* still in active mode in place
processControlleModeChange_Sticky(s, ctrl, tabId) ==
    LET mode == s.ctl[ctrl].mode
        isCtrlModeInactive == isInactiveMode(mode)
        activeCtrl == Lookup(s, s.active)
    IN  IF s.active # tabId
        THEN IF \/ isCtrlModeInactive
                \/ activeCtrl # NoCtrl /\ isActiveMode(s.ctl[activeCtrl].mode)
             THEN s
             ELSE LET s1 == [s EXCEPT !.active = tabId]
                      s2 == updateContextMenu(s1, s1.current)
                  IN  IF s2.err THEN s2 ELSE updateBrowserAction(s2, tabId)
        ELSE IF isCtrlModeInactive
             THEN updateBrowserAction(s, s.current)
             ELSE updateBrowserAction(s, tabId)

processControlleModeChange(s, ctrl, tabId) ==
    LET mode == s.ctl[ctrl].mode
        isCtrlModeInactive == isInactiveMode(mode)
    IN  IF s.active # tabId
        THEN IF isCtrlModeInactive
             THEN s
             ELSE LET s1 == [s EXCEPT !.active = tabId]
                      s2 == updateContextMenu(s1, s1.current)
                  IN  IF s2.err THEN s2 ELSE updateBrowserAction(s2, tabId)
        ELSE IF isCtrlModeInactive
             THEN updateBrowserAction(s, s.current)
             ELSE updateBrowserAction(s, tabId)

\* processTabChange that unloads the controller of the tab that was current
processTabChange_Unload(s, tabId) ==
    LET s0 == IF s.ready /\ s.current # tabId
              THEN unloadController(s, s.current)
              ELSE s
        s1 == [s0 EXCEPT !.current = tabId]
    IN  IF ~s.ready
        THEN Throw(s1)
        ELSE LET s2 == IF shouldUpdateBrowserAction(s1, tabId)
                       THEN [updateBrowserAction(s1, tabId) EXCEPT !.active = tabId]
                       ELSE s1
             IN  updateContextMenu(s2, tabId)

processTabChange(s, tabId) ==
    LET s1 == [s EXCEPT !.current = tabId]
    IN  IF ~s.ready
        THEN Throw(s1)
        ELSE LET s2 == IF shouldUpdateBrowserAction(s1, tabId)
                       THEN [updateBrowserAction(s1, tabId) EXCEPT !.active = tabId]
                       ELSE s1
             IN  updateContextMenu(s2, tabId)

\* processTabRemove without `this.activeTabId = tabs.TAB_ID_NONE`
processTabRemove_KeepActive(s, removedTabId, order) ==
    LET s1 == unloadController(s, removedTabId)
    IN  IF removedTabId = s1.active
        THEN updateLastActiveTab(s1, order)
        ELSE s1

processTabRemove(s, removedTabId, order) ==
    LET s1 == unloadController(s, removedTabId)
    IN  IF removedTabId = s1.active
        THEN updateLastActiveTab([s1 EXCEPT !.active = NO_TAB], order)
        ELSE s1

\* the onclick closure built by addContextMenuItem
onclick(s, item) ==
    LET s1 == IF item.kind = "toggle"
              THEN setConnectorState(s, item.ctrl, item.conn, item.newState)
              ELSE setEnabled(s, item.ctrl, FALSE)
        s2 == updateContextMenu(s1, item.tabId)
    IN  IF s2.err
        THEN s2
        ELSE IF shouldUpdateBrowserAction(s2, item.tabId)
             THEN updateBrowserAction(s2, item.tabId)
             ELSE s2

\* tryToInjectConnector, case NO_MATCH
injectNoMatch(s, tabId, order) ==
    IF ~s.ready
    THEN Throw(s)
    ELSE IF Lookup(s, tabId) # NoCtrl
         THEN updateLastActiveTab(unloadController(s, tabId), order)
         ELSE s

\* tryToInjectConnector, case MATCHED, from the resumption of
\* `await this.createController(tabId, connector)` on
injectMatched(s, tabId, connector, isEnabled) ==
    LET s1 == createController(s, tabId, connector, isEnabled)
    IN  IF s1.err
        THEN s1
        ELSE LET s2 == IF shouldUpdateBrowserAction(s1, tabId)
                       THEN updateBrowserAction(s1, tabId)
                       ELSE s1
                 s3 == updateContextMenu(s2, tabId)
             IN  IF s3.err THEN s3 ELSE sendReady(s3, tabId)

\* commandTarget with the two lookups swapped
commandTarget_CurrentFirst(s) ==
    IF Lookup(s, s.current) # NoCtrl
    THEN Lookup(s, s.current)
    ELSE Lookup(s, s.active)

\* the controller processCommand acts on
commandTarget(s) ==
    IF Lookup(s, s.active) # NoCtrl
    THEN Lookup(s, s.active)
    ELSE Lookup(s, s.current)

\* ------------------------------------------------------ YouTube connector
MaxFetch == 2
MaxTime == 2
MaxUrls == 2

CATEGORY_PENDING == "YT_DUMMY_CATEGORY_PENDING"
CATEGORY_UNKNOWN == "YT_DUMMY_CATEGORY_UNKNOWN"
CATEGORY_MUSIC == "/channel/UC-9-kyTW8ZkZNDHQJ6FgpwQ"
CATEGORY_ENTERTAINMENT == "/channel/UCi-g4cjqGV7jvU8aeSuj0jQ"
\* a channel url that is not in the list CATEGORIES
OtherChannel == "/channel/other"
\* The items of CATEGORIES among the urls the model lets a page show
CATEGORIES == {CATEGORY_MUSIC, CATEGORY_ENTERTAINMENT, "/gaming"}
Hrefs == {CATEGORY_MUSIC, CATEGORY_ENTERTAINMENT, "/gaming", OtherChannel}

\* no key in the Map; null
ABSENT == "absent"
NULL == "null"
\* Connector.getUniqueID() of a page that shows no video
NoVideo == "none"
Videos == {"v1", "v2"}

\* What document.querySelectorAll(selector) gives fetchCategoryId: the hrefs
\* of the matching nodes
UrlLists == UNION {[1..n -> Hrefs] : n \in 0..MaxUrls}

\* fetchCategoryId after `await fillMoreSection()`
fetchCategoryId(ytChannelUrls) ==
    IF Len(ytChannelUrls) = 0
    THEN CATEGORY_UNKNOWN
    ELSE IF Len(ytChannelUrls) = 1
    THEN ytChannelUrls[1]
    ELSE LET hits == {i \in 1..Len(ytChannelUrls) : ytChannelUrls[i] \in CATEGORIES}
         IN  IF hits # {} THEN ytChannelUrls[Min(hits)] ELSE CATEGORY_UNKNOWN

\* The connector as a record, ret being what a call returns
YtPack == [cache |-> categoryCache, fetching |-> fetching, started |-> started,
           allowed |-> allowedCategories, ret |-> NULL, allow |-> FALSE]

\* getVideoCategory that looks for a fetched category only, not for the key
getVideoCategory_RefetchPending(y, videoId) ==
    IF videoId = NoVideo
    THEN [y EXCEPT !.ret = NULL]
    ELSE IF y.cache[videoId] \notin {ABSENT, CATEGORY_PENDING}
    THEN [y EXCEPT !.ret = y.cache[videoId]]
    ELSE [y EXCEPT !.cache[videoId] = CATEGORY_PENDING,
                   !.fetching[videoId] = @ + 1,
                   !.started[videoId] = @ + 1,
                   !.ret = NULL]

getVideoCategory(y, videoId) ==
    IF videoId = NoVideo
    THEN [y EXCEPT !.ret = NULL]
    ELSE IF y.cache[videoId] # ABSENT
    THEN [y EXCEPT !.ret = y.cache[videoId]]
    ELSE [y EXCEPT !.cache[videoId] = CATEGORY_PENDING,
                   !.fetching[videoId] = @ + 1,
                   !.started[videoId] = @ + 1,
                   !.ret = NULL]

\* Connector.isScrobblingAllowed; adShowing is
\* document.querySelector('.ad-showing') !== null
isScrobblingAllowed(y, adShowing, currentTime, videoId) ==
    IF adShowing
    THEN [y EXCEPT !.allow = FALSE]
    ELSE IF currentTime < 1
    THEN [y EXCEPT !.allow = FALSE]
    ELSE IF y.allowed = {}
    THEN [y EXCEPT !.allow = TRUE]
    ELSE LET y1 == getVideoCategory(y, videoId)
             videoCategory == y1.ret
         IN  IF videoCategory = NULL
             THEN [y1 EXCEPT !.allow = FALSE]
             ELSE IF videoCategory = CATEGORY_UNKNOWN
                  THEN [y1 EXCEPT !.allow = TRUE]
                  ELSE [y1 EXCEPT !.allow = videoCategory \in y1.allowed]

NoCheck == [id |-> NoVideo, pre |-> ABSENT, gated |-> FALSE, allow |-> FALSE]

\* The connector when its script has run to the end
YtStart ==
    /\ allowedCategories = {}
    /\ optionsRead = 0
    /\ categoryCache = [v \in Videos |-> ABSENT]
    /\ fetching = [v \in Videos |-> 0]
    /\ started = [v \in Videos |-> 0]
    /\ ytLast = NoCheck

\* readConnectorOptions resumes from its first and from its second await
ReadScrobbleMusicOnly ==
    /\ optionsRead = 0
    /\ \E option \in BOOLEAN :
        allowedCategories' = IF option
                             THEN allowedCategories \cup {CATEGORY_MUSIC}
                             ELSE allowedCategories
    /\ optionsRead' = 1
    /\ UNCHANGED <<categoryCache, fetching, started, ytLast>>
    /\ UNCHANGED workerVars

ReadScrobbleEntertainmentOnly ==
    /\ optionsRead = 1
    /\ \E option \in BOOLEAN :
        allowedCategories' = IF option
                             THEN allowedCategories \cup {CATEGORY_ENTERTAINMENT}
                             ELSE allowedCategories
    /\ optionsRead' = 2
    /\ UNCHANGED <<categoryCache, fetching, started, ytLast>>
    /\ UNCHANGED workerVars

\* The core asks the connector whether the page may be scrobbled
IsScrobblingAllowed ==
    \E adShowing \in BOOLEAN, currentTime \in 0..MaxTime,
       videoId \in Videos \cup {NoVideo} :
        /\ videoId \in Videos => fetching[videoId] < MaxFetch
        /\ LET y == isScrobblingAllowed(YtPack, adShowing, currentTime, videoId)
           IN  /\ categoryCache' = y.cache
               /\ fetching' = y.fetching
               /\ started' = y.started
               /\ ytLast' = [id |-> videoId,
                             pre |-> IF videoId \in Videos
                                     THEN categoryCache[videoId] ELSE ABSENT,
                             gated |-> allowedCategories # {},
                             allow |-> y.allow]
        /\ UNCHANGED <<allowedCategories, optionsRead>>
        /\ UNCHANGED workerVars

\* A promise of fetchCategoryId() resolves: the callback of `.then`
FetchResolved ==
    \E videoId \in Videos, ytChannelUrls \in UrlLists :
        /\ fetching[videoId] > 0
        /\ fetching' = [fetching EXCEPT ![videoId] = @ - 1]
        /\ categoryCache' = [categoryCache EXCEPT
                                ![videoId] = fetchCategoryId(ytChannelUrls)]
        /\ UNCHANGED <<allowedCategories, optionsRead, started, ytLast>>
        /\ UNCHANGED workerVars

\* ... or rejects (fillMoreSection threw): the callback of `.catch`
FetchRejected ==
    \E videoId \in Videos :
        /\ fetching[videoId] > 0
        /\ fetching' = [fetching EXCEPT ![videoId] = @ - 1]
        /\ categoryCache' = [categoryCache EXCEPT ![videoId] = CATEGORY_UNKNOWN]
        /\ UNCHANGED <<allowedCategories, optionsRead, started, ytLast>>
        /\ UNCHANGED workerVars

YtNext ==
    \/ ReadScrobbleMusicOnly
    \/ ReadScrobbleEntertainmentOnly
    \/ IsScrobblingAllowed
    \/ FetchResolved
    \/ FetchRejected

\* ---------------------------------------------------------------- actions
OpenTabs == Tabs \ closedTabs

Init ==
    /\ ready = FALSE
    /\ currentTabId = UNDEF
    /\ activeTabId = UNDEF
    /\ tabControllers = [t \in Tabs |-> NoCtrl]
    /\ controllers = [c \in Ctrls |-> Unborn]
    /\ nextCtrl = 1
    /\ menu = <<>>
    /\ tasks = EmptyBag
    /\ closedTabs = {}
    /\ last = NoEffect
    /\ YtStart

\* initialize() resumes from `await getCurrentTab()`
Initialize ==
    /\ ~ready
    /\ \E currentTab \in OpenTabs \cup {NO_TAB} :
        /\ Unpack([Pack EXCEPT !.ready = TRUE,
                               !.current = currentTab,
                               !.active = NO_TAB,
                               !.tc = [t \in Tabs |-> NoCtrl],
                               !.ba = NoCtrl])
        /\ last' = Effect(Pack, "initialize", currentTab, NoCtrl, FALSE)
    /\ UNCHANGED <<tasks, closedTabs>>

\* processTabUpdate(tabId, url) awaits getConnectorByUrl(url) and then, in
\* tryToInjectConnector, Inject.injectConnector(tabId, connector) before it
\* reads or writes any field of the worker.  Any number of these handlers may
\* be parked there for a tab, a closed one included (the call came while it
\* was open), so the model keeps no count of them: a handler for any tab
\* resumes whenever the environment decides, with the connector the url
\* resolved to and the result of the injection.
\* The results Inject.injectConnector can give for a connector
InjectResults(connector) ==
    IF connector = NoConn THEN {NO_MATCH} ELSE {INJECTED, MATCHED}

InjectInjected ==
    \E tabId \in Tabs : \E connector \in ConnectorsOf(tabId) :
        /\ INJECTED \in InjectResults(connector)
        /\ UNCHANGED vars

InjectNoMatch ==
    \E tabId \in Tabs, order \in Orders :
        /\ NO_MATCH \in InjectResults(NoConn)
        /\ LET s == injectNoMatch(Pack, tabId, order)
           IN  /\ Unpack(s)
               /\ last' = Effect(s, "NO_MATCH", tabId, Lookup(Pack, tabId), FALSE)
        /\ UNCHANGED <<tasks, closedTabs>>

\* case MATCHED up to `await Options.isConnectorEnabled(connector)`
InjectMatched ==
    \E tabId \in Tabs : \E connector \in ConnectorsOf(tabId) :
        /\ MATCHED \in InjectResults(connector)
        /\ BagCardinality(tasks) < MaxTasks
        /\ LET s == unloadController(Pack, tabId)
           IN  /\ Unpack(s)
               /\ last' = Effect(s, "MATCHED", tabId, Lookup(Pack, tabId), FALSE)
        /\ tasks' = tasks (+) SetToBag({[tab |-> tabId, conn |-> connector]})
        /\ UNCHANGED closedTabs

\* ... and from the resumption of that await to the end of the handler;
\* isEnabled is what Options.isConnectorEnabled resolved to
CreateResume ==
    \E task \in BagToSet(tasks), isEnabled \in BOOLEAN :
        /\ nextCtrl <= MaxCtrl
        /\ LET s == injectMatched(Pack, task.tab, task.conn, isEnabled)
           IN  /\ Unpack(s)
               /\ last' = Effect(s, "created", task.tab, nextCtrl, isEnabled)
        /\ tasks' = tasks (-) SetToBag({task})
        /\ UNCHANGED closedTabs

ProcessTabChange ==
    \E tabId \in OpenTabs :
        LET s == processTabChange(Pack, tabId)
        IN  /\ Unpack(s)
            /\ last' = Effect(s, "processTabChange", tabId, NoCtrl, FALSE)
            /\ UNCHANGED <<tasks, closedTabs>>

ProcessTabRemove ==
    \E removedTabId \in OpenTabs, order \in Orders :
        LET s == processTabRemove(Pack, removedTabId, order)
        IN  /\ Unpack(s)
            /\ last' = Effect(s, "processTabRemove", removedTabId,
                              Lookup(Pack, removedTabId), FALSE)
            /\ closedTabs' = closedTabs \cup {removedTabId}
            /\ UNCHANGED tasks

\* A controller changes its mode and calls onModeChanged.  A controller
\* becomes active on page state delivered through the map entry of an open
\* tab, and only while it is enabled.
ModeChange ==
    \E ctrl \in Ctrls :
        /\ controllers[ctrl].st = "live"
        /\ \/ isActiveMode(controllers[ctrl].mode)
           \/ /\ controllers[ctrl].isEnabled
              /\ controllers[ctrl].tabId \in OpenTabs
              /\ Lookup(Pack, controllers[ctrl].tabId) = ctrl
        /\ LET newMode == IF isActiveMode(controllers[ctrl].mode)
                          THEN "inactive" ELSE "active"
               s0 == [Pack EXCEPT !.ctl[ctrl].mode = newMode]
               s == processControlleModeChange(s0, ctrl, controllers[ctrl].tabId)
           IN  /\ Unpack(s)
               /\ last' = Effect(s, "modeChange", controllers[ctrl].tabId, ctrl,
                                 isActiveMode(newMode))
        /\ UNCHANGED <<tasks, closedTabs>>

MenuClick ==
    \E n \in 1..Len(menu) :
        LET s == onclick(Pack, menu[n])
        IN  /\ Unpack(s)
            /\ last' = Effect(s, menu[n].kind, menu[n].tabId, menu[n].ctrl,
                              menu[n].newState)
            /\ UNCHANGED <<tasks, closedTabs>>

\* processCommand.  The continuation of `await ctrl.toggleLove(isLoved)` uses
\* only the locals isLoved and ctrl and calls only this.browserAction: it reads
\* and writes no field of the worker, so it is run in the same step.
processCommand(s, command) ==
    LET ctrl == commandTarget(s)
    IN  IF ~s.ready
        THEN Throw(s)
        ELSE IF ctrl = NoCtrl
             THEN s
             ELSE IF command = "toggle-connector"
                  THEN Throw(s)  \* this.setControllerState is not a function
                  ELSE LET isLoved == command = "love-song"
                           call == [ctrl |-> ctrl, isLoved |-> isLoved]
                       IN  [s EXCEPT !.love = call, !.songLoved = call]

ProcessCommand ==
    \E command \in Commands :
        LET s == processCommand(Pack, command)
        IN  /\ Unpack(s)
            /\ UNCHANGED <<tasks, closedTabs, last>>

\* processMessage with the controller looked up before the switch on
\* REQUEST_ACTIVE_TABID
processMessage_LookupFirst(s, tabId, type, isLoved) ==
    IF ~s.ready
    THEN Throw(s)
    ELSE IF Lookup(s, tabId) = NoCtrl
         THEN s
         ELSE IF type = "REQUEST_ACTIVE_TABID"
              THEN [s EXCEPT !.ret = [NoRet EXCEPT !.k = "tabId", !.tab = s.active]]
              ELSE s

\* processMessage(tabId, type, data); isLoved is data.isLoved.  The
\* continuation of `await ctrl.toggleLove(data.isLoved)` returns a value of
\* the message and touches no field of the worker: it is run in the same step.
processMessage(s, tabId, type, isLoved) ==
    LET ctrl == Lookup(s, tabId)
    IN  IF type = "REQUEST_ACTIVE_TABID"
        THEN [s EXCEPT !.ret = [NoRet EXCEPT !.k = "tabId", !.tab = s.active]]
        ELSE IF ~s.ready
        THEN Throw(s)
        ELSE IF ctrl = NoCtrl
        THEN s
        ELSE CASE type = "REQUEST_GET_SONG" ->
                    [s EXCEPT !.ret = [NoRet EXCEPT !.k = "song", !.ctrl = ctrl]]
               [] type = "REQUEST_CORRECT_SONG" ->
                    [s EXCEPT !.call = [ctrl |-> ctrl, method |-> "setUserSongData"]]
               [] type = "REQUEST_TOGGLE_LOVE" ->
                    [s EXCEPT !.love = [ctrl |-> ctrl, isLoved |-> isLoved],
                              !.ret = [NoRet EXCEPT !.k = "isLoved", !.flag = isLoved]]
               [] type = "REQUEST_SKIP_SONG" ->
                    [s EXCEPT !.call = [ctrl |-> ctrl, method |-> "skipCurrentSong"]]
               [] type = "REQUEST_RESET_SONG" ->
                    [s EXCEPT !.call = [ctrl |-> ctrl, method |-> "resetSongData"]]
               [] OTHER -> s

ProcessMessage ==
    \E tabId \in Tabs, type \in MessageTypes :
        \E isLoved \in IF type = "REQUEST_TOGGLE_LOVE" THEN BOOLEAN ELSE {FALSE} :
            LET s == processMessage(Pack, tabId, type, isLoved)
            IN  /\ Unpack(s)
                /\ UNCHANGED <<tasks, closedTabs, last>>

\* processPortMessage(tabId, type, data).  What ctrl.onStateChanged(data) does
\* to the mode of the controller is the step ModeChange.
processPortMessage(s, tabId, type) ==
    IF type = "EVENT_STATE_CHANGED"
    THEN IF ~s.ready
         THEN Throw(s)
         ELSE IF Lookup(s, tabId) # NoCtrl
              THEN [s EXCEPT !.call = [ctrl |-> Lookup(s, tabId),
                                       method |-> "onStateChanged"]]
              ELSE s
    ELSE s

ProcessPortMessage ==
    \E tabId \in Tabs, type \in PortMessageTypes :
        LET s == processPortMessage(Pack, tabId, type)
        IN  /\ Unpack(s)
            /\ UNCHANGED <<tasks, closedTabs, last>>

Next ==
    \/ Initialize
    \/ InjectInjected
    \/ InjectNoMatch
    \/ InjectMatched
    \/ CreateResume
    \/ ProcessTabChange
    \/ ProcessTabRemove
    \/ ModeChange
    \/ MenuClick
    \/ ProcessCommand
    \/ ProcessMessage
    \/ ProcessPortMessage

Spec == Init /\ [][Next]_vars

\* The connector in its page
YtSpec == Init /\ [][YtNext]_vars

TypeOK ==
    /\ ready \in BOOLEAN
    /\ currentTabId \in Tabs \cup {NO_TAB, UNDEF}
    /\ activeTabId \in Tabs \cup {NO_TAB, UNDEF}
    /\ tabControllers \in [Tabs -> Ctrls \cup {NoCtrl}]
    /\ nextCtrl \in 1..(MaxCtrl + 1)

\* ------------------------------------------------------------------ claims
HasCtrl(tabId) == Lookup(Pack, tabId) # NoCtrl

HasActiveCtrl(tabId) ==
    /\ HasCtrl(tabId)
    /\ isActiveMode(controllers[Lookup(Pack, tabId)].mode)

ActiveEntries == {t \in Tabs : HasActiveCtrl(t)}

\* C1: no controller is ever displaced from the map without teardown: when a
\* step replaces or removes the entry of a tab, the controller that was the
\* entry has had finish() called.
C1_NoDisplacement ==
    [][\A t \in Tabs :
          (tabControllers[t] # NoCtrl /\ tabControllers'[t] # tabControllers[t])
              => controllers'[tabControllers[t]].st = "finished"]_vars

\* C2: after processTabRemove(t) has completed, the map has no entry for t,
\* and if t was ActiveTabId before the call, ActiveTabId is not t and is what
\* the election over the remaining controllers gives (NO_TAB when none
\* qualifies).
C2_TabRemove ==
    (last.op = "processTabRemove" /\ ~last.err /\ ~last.rej) =>
        /\ ~HasCtrl(last.tab)
        /\ last.preActive = last.tab =>
            /\ activeTabId # last.tab
            /\ \E order \in Orders : activeTabId = findActiveTabId(Pack, order)

\* a removal of the active tab after which another tab was elected
C2_Witness ==
    /\ last.op = "processTabRemove" /\ ~last.err /\ ~last.rej
    /\ last.preActive = last.tab
    /\ last.ctrl # NoCtrl
    /\ activeTabId \in Tabs

\* C3: once a handler has finished, ActiveTabId is NO_TAB, or a tab whose
\* entry in the map is a controller in active mode, or CurrentTabId.
C3_ActiveTabInvariant ==
    ready =>
        \/ activeTabId = NO_TAB
        \/ HasActiveCtrl(activeTabId)
        \/ activeTabId = currentTabId

\* C4: when an injection attempt for tab A has returned Matched and no other
\* tab has a controller, then after tryToInjectConnector a controller entry
\* exists for A, ActiveTabId is A and EVENT_READY has been sent to A, the
\* entry being in the map when it was sent.
C4_MatchedActivates ==
    (/\ last.op = "created"
     /\ ready
     /\ \A t \in Tabs \ {last.tab} : ~HasCtrl(t)) =>
        /\ HasCtrl(last.tab)
        /\ activeTabId = last.tab
        /\ last.sent = last.tab
        /\ last.sentOk

\* C5: when tab A has a controller entry, no other tab has one and an
\* injection attempt for A returns NoMatch, then afterwards A has no entry
\* and ActiveTabId is NO_TAB.
C5_NoMatchResets ==
    (/\ last.op = "NO_MATCH"
     /\ last.ctrl # NoCtrl
     /\ \A t \in Tabs \ {last.tab} : ~HasCtrl(t)) =>
        /\ ~HasCtrl(last.tab)
        /\ activeTabId = NO_TAB

\* The case of C6: before processTabChange(B) ran, ActiveTabId was a tab A
\* other than B whose controller is in active mode, and B has no controller.
StickyCase ==
    /\ last.op = "processTabChange"
    /\ last.preActive \in Tabs \ {last.tab}
    /\ HasActiveCtrl(last.preActive)
    /\ ~HasCtrl(last.tab)

\* C6: sticky active tab: in that case processTabChange(B) sets CurrentTabId
\* to B, leaves ActiveTabId equal to A and rebuilds the menu, for B, with a
\* toggle item of A's controller and its connector.
C6_StickyActiveTab ==
    StickyCase =>
        /\ ~last.err
        /\ currentTabId = last.tab
        /\ activeTabId = last.preActive
        /\ \E n \in 1..Len(menu) :
            /\ menu[n].kind = "toggle"
            /\ menu[n].tabId = last.tab
            /\ menu[n].ctrl = tabControllers[last.preActive]
            /\ menu[n].conn = controllers[tabControllers[last.preActive]].conn

C6_Witness == StickyCase /\ Len(menu) = 1

\* C7: shouldUpdateBrowserAction(tabId) is false exactly when (ActiveTabId's
\* controller is in active mode and tabId is another tab than ActiveTabId) or
\* (tabId's controller is inactive and tabId is not CurrentTabId), and true
\* otherwise, also for tabId = ActiveTabId with an active controller.
C7_ShouldUpdate ==
    ready =>
        \A tabId \in Tabs :
            shouldUpdateBrowserAction(Pack, tabId) =
                ~ \/ HasActiveCtrl(activeTabId) /\ tabId # activeTabId
                  \/ /\ HasCtrl(tabId)
                     /\ isInactiveMode(controllers[Lookup(Pack, tabId)].mode)
                     /\ tabId # currentTabId

\* C8: if exactly one controller entry is in active mode, findActiveTabId
\* returns the tab of that entry, whatever CurrentTabId is and in whatever
\* order the map is visited.
C8_SingleActiveElected ==
    \A t \in Tabs :
        ActiveEntries = {t} =>
            \A order \in Orders : findActiveTabId(Pack, order) = t

\* an election, run by a removal or a NoMatch, that passed over the current
\* tab and took the one tab with an active controller
C8_Witness ==
    /\ last.op \in {"processTabRemove", "NO_MATCH"}
    /\ last.ctrl # NoCtrl
    /\ ~last.err
    /\ ActiveEntries = {activeTabId}
    /\ currentTabId # activeTabId
    /\ last.preActive # activeTabId

\* The controller C9 says a command acts on
C9_Target ==
    IF HasCtrl(activeTabId)
    THEN tabControllers[activeTabId]
    ELSE IF HasCtrl(currentTabId) THEN tabControllers[currentTabId] ELSE NoCtrl

\* C9: processCommand acts on ActiveTabId's controller when there is one,
\* otherwise on CurrentTabId's, and changes nothing when there is none;
\* love-song and unlove-song call toggleLove on that controller and refresh
\* the love affordance with that controller's song.
C9_CommandTarget ==
    ready =>
        \A command \in Commands :
            LET s == processCommand(Pack, command)
                call == [ctrl |-> C9_Target, isLoved |-> command = "love-song"]
            IN  /\ C9_Target = NoCtrl => s = Pack
                /\ (C9_Target # NoCtrl /\ command # "toggle-connector") =>
                    /\ ~s.err
                    /\ s.love = call
                    /\ s.songLoved = call
                    /\ s.ctl = controllers /\ s.tc = tabControllers
                    /\ s.active = activeTabId /\ s.current = currentTabId

\* love-song with no active tab and a controller on the current tab
C9_Witness ==
    /\ ready
    /\ activeTabId = NO_TAB
    /\ HasCtrl(currentTabId)
    /\ processCommand(Pack, "love-song").songLoved =
           [ctrl |-> tabControllers[currentTabId], isLoved |-> TRUE]

\* C10: processCommand('toggle-connector') with a target controller completes
\* normally and leaves that controller's enabled flag negated.
C10_ToggleConnector ==
    (ready /\ C9_Target # NoCtrl) =>
        LET s == processCommand(Pack, "toggle-connector")
        IN  /\ ~s.err
            /\ s.ctl[C9_Target].isEnabled = ~controllers[C9_Target].isEnabled

\* C11: processMessage with REQUEST_ACTIVE_TABID resolves to ActiveTabId for
\* every tabId, one with no controller included; any other message type for a
\* tab with no controller, and a port message for such a tab, returns no
\* value, raises no error and leaves the controller map, ActiveTabId and
\* CurrentTabId as they were.
C11_MessageRouting ==
    /\ \A tabId \in Tabs, isLoved \in BOOLEAN :
        LET s == processMessage(Pack, tabId, "REQUEST_ACTIVE_TABID", isLoved)
        IN  /\ ~s.err
            /\ s.ret.k = "tabId"
            /\ s.ret.tab = activeTabId
    /\ ready =>
        \A tabId \in {t \in Tabs : ~HasCtrl(t)} :
            /\ \A type \in MessageTypes \ {"REQUEST_ACTIVE_TABID"},
                  isLoved \in BOOLEAN :
                processMessage(Pack, tabId, type, isLoved) = Pack
            /\ \A type \in PortMessageTypes :
                processPortMessage(Pack, tabId, type) = Pack

\* REQUEST_ACTIVE_TABID from a tab with no controller while another tab, with
\* a controller, is the active one
C11_Witness ==
    /\ ready
    /\ HasCtrl(activeTabId)
    /\ \E tabId \in Tabs :
        /\ ~HasCtrl(tabId)
        /\ tabId # activeTabId
        /\ processMessage(Pack, tabId, "REQUEST_ACTIVE_TABID", FALSE).ret.tab
               = activeTabId
        /\ processMessage(Pack, tabId, "REQUEST_GET_SONG", FALSE).ret = NoRet

\* What a menu shows: the kind, the controller and the connector of each item
Shown(m) ==
    {[kind |-> m[n].kind, ctrl |-> m[n].ctrl, conn |-> m[n].conn] :
        n \in 1..Len(m)}

ShownItem(kind, ctrl) ==
    [kind |-> kind, ctrl |-> ctrl, conn |-> controllers[ctrl].conn]

\* The items C12 lists for a menu built for tabId
C12_Items(tabId) ==
    LET ctrl == Lookup(Pack, tabId)
        activeCtrl == Lookup(Pack, activeTabId)
    IN  (IF ctrl # NoCtrl THEN {ShownItem("toggle", ctrl)} ELSE {})
        \cup (IF ctrl # NoCtrl /\ controllers[ctrl].isEnabled
              THEN {ShownItem("disableUntilTabClosed", ctrl)} ELSE {})
        \cup (IF /\ tabId # activeTabId
                 /\ activeCtrl # NoCtrl
                 /\ \/ ctrl = NoCtrl
                    \/ controllers[activeCtrl].conn # controllers[ctrl].conn
              THEN {ShownItem("toggle", activeCtrl)} ELSE {})

\* C12: after updateContextMenu(tabId), whatever the menu held before, the
\* menu consists of exactly: a toggle item for tabId's controller if it has
\* one; a 'disable until tab closed' item iff that controller is enabled; a
\* toggle item for ActiveTabId's controller iff tabId is not ActiveTabId and
\* the active tab has a controller whose connector differs from tabId's (or
\* tabId has none).  With the same connector on both there is one toggle item.
C12_MenuContents ==
    \A tabId \in Tabs \cup {NO_TAB} :
        LET m == updateContextMenu(Pack, tabId).menu
        IN  /\ Shown(m) = C12_Items(tabId)
            /\ Len(m) = Cardinality(C12_Items(tabId))

\* a menu rebuilt by processTabChange for a tab whose controller has the
\* connector of the active tab's controller: one toggle item
C12_Witness ==
    /\ last.op = "processTabChange"
    /\ ~last.err
    /\ activeTabId # currentTabId
    /\ HasCtrl(activeTabId) /\ HasCtrl(currentTabId)
    /\ controllers[tabControllers[activeTabId]].conn
           = controllers[tabControllers[currentTabId]].conn
    /\ Cardinality({n \in 1..Len(menu) : menu[n].kind = "toggle"}) = 1
    /\ Shown(menu) = C12_Items(currentTabId)

\* C13: processTabUpdate is idempotent on an already-injected tab: when tab t
\* has a controller for connector X and an injection attempt for t with X
\* matches, the entry of t is still the same controller instance, not
\* finished, with its enabled flag as it was.
C13_IdempotentTabUpdate ==
    [][\A t \in Tabs :
          LET ctrl == tabControllers[t]
              task == [tab |-> t, conn |-> controllers[ctrl].conn]
          IN  (/\ ctrl # NoCtrl
               /\ last'.op = "MATCHED"
               /\ last'.tab = t
               /\ CopiesIn(task, tasks') = CopiesIn(task, tasks) + 1) =>
                  /\ tabControllers'[t] = ctrl
                  /\ controllers'[ctrl].st = "live"
                  /\ controllers'[ctrl].isEnabled = controllers[ctrl].isEnabled]_vars

\* C14: no public entry point and no menu-click or mode-change callback ends
\* in an uncaught error in any reachable state; in particular rebuilding the
\* menu for a tab other than ActiveTabId when ActiveTabId has no controller
\* completes without error.
C14_NoUncaughtError ==
    ready =>
        /\ ~last.err
        /\ ~last.rej
        /\ \A command \in Commands : ~processCommand(Pack, command).err

\* C15: when processTabRemove(t) ran while an injection attempt for t was
\* pending, the attempt is a no-op when it resumes: no controller entry is
\* created for t, ActiveTabId does not become t and no error is raised.
C15_StaleInjection ==
    (/\ ready
     /\ last.op = "created"
     /\ last.tab \in closedTabs) =>
        /\ ~HasCtrl(last.tab)
        /\ activeTabId # last.tab
        /\ ~last.err

\* C16: processControlleModeChange(ctrl, tabId) for a tab other than
\* ActiveTabId: with the new mode inactive, ActiveTabId, the menu and the
\* browser action are left as they were; with the new mode active, ActiveTabId
\* becomes tabId (also when the controller of the previous ActiveTabId is
\* still in active mode), the menu is rebuilt for CurrentTabId and the browser
\* action is updated from tabId's controller.  For tabId = ActiveTabId,
\* ActiveTabId is unchanged and the action is updated from CurrentTabId's
\* controller when the mode is inactive and from tabId's when it is active.
C16_ModeChange ==
    [][(/\ last'.op = "modeChange"
        /\ controllers'[last'.ctrl].mode # controllers[last'.ctrl].mode) =>
          LET tabId == last'.tab
              isActive == last'.flag
          IN  /\ ~last'.err
              /\ isActive = isActiveMode(controllers'[last'.ctrl].mode)
              /\ IF tabId # activeTabId
                 THEN IF ~isActive
                      THEN /\ activeTabId' = activeTabId
                           /\ menu' = menu
                           /\ last'.ba = Untouched
                      ELSE /\ activeTabId' = tabId
                           /\ (Shown(menu) = C12_Items(currentTabId))'
                           /\ (Len(menu) = Cardinality(C12_Items(currentTabId)))'
                           /\ last'.ba = Lookup(Pack, tabId)
                 ELSE /\ activeTabId' = activeTabId
                      /\ menu' = menu
                      /\ last'.ba = IF isActive
                                    THEN Lookup(Pack, tabId)
                                    ELSE Lookup(Pack, currentTabId)
              /\ currentTabId' = currentTabId
              /\ tabControllers' = tabControllers]_vars

\* a controller turned active on a tab other than the active one, whose
\* controller is still in active mode, and took over
C16_Witness ==
    /\ last.op = "modeChange"
    /\ last.flag
    /\ last.preActive \in Tabs \ {last.tab}
    /\ HasActiveCtrl(last.preActive)
    /\ activeTabId = last.tab
    /\ last.ba = Lookup(Pack, last.tab)

\* C17: findActiveTabId follows the four steps of the election for every map
\* and CurrentTabId: CurrentTabId if its controller is in active mode (other
\* tabs may be active too); else the tab of some controller in active mode;
\* else CurrentTabId if it has a controller; else NO_TAB.  The result is
\* NO_TAB or the key of an entry of the map.
C17_ElectionOrder ==
    ready =>
        \A order \in Orders :
            LET r == findActiveTabId(Pack, order)
            IN  /\ HasActiveCtrl(currentTabId) => r = currentTabId
                /\ (~HasActiveCtrl(currentTabId) /\ ActiveEntries # {}) =>
                       r \in ActiveEntries
                /\ (ActiveEntries = {} /\ HasCtrl(currentTabId)) =>
                       r = currentTabId
                /\ (ActiveEntries = {} /\ ~HasCtrl(currentTabId)) => r = NO_TAB
                /\ r = NO_TAB \/ HasCtrl(r)

\* two tabs with controllers in active mode, the current tab one of them
C17_Witness ==
    /\ ready
    /\ HasActiveCtrl(currentTabId)
    /\ Cardinality(ActiveEntries) = 2
    /\ \A order \in Orders : findActiveTabId(Pack, order) = currentTabId

KeepsMap(s) == s.tc = tabControllers /\ s.current = currentTabId

\* C19: which tabs have a controller entry, and which controller each maps
\* to, is left unchanged by processCommand, processMessage,
\* processPortMessage, processTabChange, processControlleModeChange,
\* updateLastActiveTab, menu clicks and an attempt whose outcome is Injected;
\* entries are added only by the Matched outcome and removed only by the
\* Matched and NoMatch outcomes and processTabRemove.  CurrentTabId is changed
\* only by processTabChange and startup.
C19_Frame ==
    /\ [](/\ \A command \in Commands : KeepsMap(processCommand(Pack, command))
          /\ \A tabId \in Tabs, type \in MessageTypes, isLoved \in BOOLEAN :
                KeepsMap(processMessage(Pack, tabId, type, isLoved))
          /\ \A tabId \in Tabs, type \in PortMessageTypes :
                KeepsMap(processPortMessage(Pack, tabId, type))
          /\ \A order \in Orders : KeepsMap(updateLastActiveTab(Pack, order))
          /\ \A tabId \in Tabs :
                processTabChange(Pack, tabId).tc = tabControllers)
    /\ [][/\ \A t \in Tabs :
               tabControllers'[t] # tabControllers[t] =>
                   /\ last'.tab = t
                   /\ IF tabControllers'[t] # NoCtrl
                      THEN last'.op = "created"
                      ELSE last'.op \in {"MATCHED", "NO_MATCH", "processTabRemove"}
          /\ currentTabId' # currentTabId =>
               last'.op \in {"processTabChange", "initialize"}
          /\ last'.op \in {"processTabChange", "modeChange", "toggle",
                           "disableUntilTabClosed"} =>
               tabControllers' = tabControllers]_vars

\* processTabChange moved CurrentTabId to a tab while the other tab kept its
\* controller entry
C19_Witness ==
    /\ last.op = "processTabChange"
    /\ ~last.err
    /\ currentTabId = last.tab
    /\ \E t \in Tabs \ {currentTabId} : HasCtrl(t)

\* C20: startup loses no event: a public handler that runs after the
\* constructor has returned and before initialize() has resumed completes
\* without error, and initialize(), when it resumes, overwrites neither the
\* CurrentTabId nor the ActiveTabId that handler set and discards no
\* controller entry.
C20_StartupRace ==
    [][/\ (~ready /\ ~ready') => (~last'.err /\ ~last'.rej)
       /\ (~ready /\ ready') =>
            /\ currentTabId # UNDEF => currentTabId' = currentTabId
            /\ activeTabId # UNDEF => activeTabId' = activeTabId
            /\ tabControllers' = tabControllers]_vars


\* C21: in the YouTube connector, for every video id at most one category
\* fetch is ever started, however often getVideoCategory is called before or
\* after the fetch settles; the cache entry of an id only goes from absent to
\* PENDING and from PENDING to the fetched category or UNKNOWN, never back to
\* PENDING or absent; and while the list of allowed categories is not empty,
\* every call of isScrobblingAllowed for a video whose entry is absent or
\* PENDING returns false.
Unsettled == {ABSENT, CATEGORY_PENDING}

C21_CategoryCache ==
    /\ [](/\ \A v \in Videos : started[v] <= 1
          /\ \A v \in Videos :
                (allowedCategories # {} /\ categoryCache[v] \in Unsettled) =>
                    \A adShowing \in BOOLEAN, currentTime \in 0..MaxTime :
                        ~isScrobblingAllowed(YtPack, adShowing, currentTime, v).allow
          /\ (ytLast.id \in Videos /\ ytLast.gated /\ ytLast.pre \in Unsettled) =>
                ~ytLast.allow)
    /\ [][\A v \in Videos :
            categoryCache'[v] # categoryCache[v] =>
                \/ categoryCache[v] = ABSENT /\ categoryCache'[v] = CATEGORY_PENDING
                \/ categoryCache[v] = CATEGORY_PENDING /\ categoryCache'[v] \notin Unsettled]_vars

\* A call for a video whose category is being fetched returned false and
\* started no second fetch
C21_Witness ==
    /\ ytLast.id \in Videos
    /\ ytLast.gated
    /\ ytLast.pre = CATEGORY_PENDING
    /\ ~ytLast.allow
    /\ started[ytLast.id] = 1
    /\ categoryCache[ytLast.id] = CATEGORY_PENDING

====
